---- MODULE Spec2Model ----
(***************************************************************************)
(* Model of caspar::input (modules/ffmpeg/producer/input.cpp): the         *)
(* background demux worker, the two packet queues, the backpressure wait   *)
(* on cond_, loop/seek/flush handling, end-of-stream detection and the     *)
(* construction/destruction of input::implementation.                      *)
(***************************************************************************)
EXTENDS Integers, Sequences, FiniteSets, TLC

\* ------------------------------------------------------------------ bounds
MaxQueueLen == 27      \* state-space cap on the length of either packet queue
MaxCalls == 2          \* facade calls made by the consumer threads in one run
MaxWindowCalls == 4    \* the same when an end_frame window is configured: a second
                       \* loop restart needs four packets popped
MaxSeekFrame == 3      \* largest start_frame the constructor is asked to seek to

\* --------------------------------------------------------- program constants
PACKET_BUFFER_COUNT == 25
AVERROR_EOF == -32
AVERROR_IO == -5
AVERROR_INVALIDDATA == -1
AV_TIME_BASE == 1000000

\* Stream indices found in the media file.
VideoIndex == 0
AudioIndex == 1
OtherIndex == 2

\* The consumer threads calling the facade: one, or two calling concurrently.
OneConsumer == {"c1"}
TwoConsumers == {"c1", "c2"}

\* The media files the demuxer is run on: which codec kinds open_stream can
\* open, and the stream index of each packet av_read_frame returns, in order.
Layouts == { <<VideoIndex, AudioIndex, OtherIndex, VideoIndex, AudioIndex>> }
Openable == { {"video", "audio"}, {"video"}, {"audio"}, {} }
StartFrames == {0, 1}
EndFrames == {-1, 1}

VARIABLES
    args,                  \* constructor arguments and the media file
    constructed,           \* "no" | "yes" | "failed"
    ctor_error,            \* exception thrown by the constructor, or "none"
    loop_, start_frame_, end_frame_, eof_count_,
    video_s_index_, audio_s_index_,
    video_tb, audio_tb,    \* time_base of the two codec contexts
    video_packet_buffer_, audio_packet_buffer_,
    exception_,            \* std::exception_ptr member
    is_running_,           \* executor_.is_running()
    execution_queue_,      \* executor_'s pending tasks
    wpc,                   \* position of the executor thread
    cpc,                   \* position of each consumer thread
    dpc,                   \* position of the destructor
    pos,                   \* demuxer read position in the file (1-based)
    frame_number,          \* default codec context's frame_number
    graph_,                \* diagnostics sink: last input-buffer value, seek tags
    reads,                 \* packets av_read_frame has returned so far
    seeks,                 \* successful av_seek_frame calls so far
    popped,                \* items each queue has delivered, in order
    calls,                 \* facade calls begun so far
    lastCall,              \* the facade call that returned last: its result, and
                           \* whether it threw (no facade method rethrows a fault)
    faulted,               \* read_file's catch block has run
    lastRead,              \* what the last read_file iteration did
    afterStop,             \* read_file iterations run, and items pushed to each
                           \* queue, after ~implementation called executor_.stop()
    lastSeek               \* the frame of the last seek_frame call and the timestamp
                           \* it passed to av_seek_frame

vars == << args, constructed, ctor_error, loop_, start_frame_, end_frame_, eof_count_,
           video_s_index_, audio_s_index_, video_tb, audio_tb,
           video_packet_buffer_, audio_packet_buffer_, exception_, is_running_,
           execution_queue_, wpc, cpc, dpc, pos, frame_number, graph_, reads, seeks,
           popped, calls, lastCall, faulted, lastRead, afterStop, lastSeek >>

\* The consumer threads of the run.
Consumers == DOMAIN cpc

cfgVars == << args, loop_, start_frame_, end_frame_, video_s_index_, audio_s_index_,
              video_tb, audio_tb, exception_ >>

\* ----------------------------------------------------------------- helpers
Max(a, b) == IF a > b THEN a ELSE b
Min(a, b) == IF a < b THEN a ELSE b

RECURSIVE Pow10(_)
Pow10(n) == IF n <= 0 THEN 1 ELSE 10 * Pow10(n - 1)

RECURSIVE Log10Floor(_)
Log10Floor(n) == IF n < 10 THEN 0 ELSE 1 + Log10Floor(n \div 10)

NoTimeBase == [num |-> 0, den |-> 0]

\* fix_time_base: pow(10.0, int(log10(den)) - 1) truncated to int; a negative
\* exponent gives 0.1, which truncates to 0.
fix_time_base(tb) ==
    IF tb.num = 1
    THEN [tb EXCEPT !.num = IF Log10Floor(tb.den) - 1 < 0 THEN 0
                             ELSE Pow10(Log10Floor(tb.den) - 1)]
    ELSE tb

\* A flush marker is a zero-length buffer; a packet copies the bytes read.
\* id, epoch and stream_index tag the item with the read that produced it, the
\* number of successful seeks that preceded it and the stream it was read from.
FlushMarker(epoch) == [len |-> 0, id |-> 0, epoch |-> epoch, stream_index |-> -1]
Packet(id, epoch, stream_index) ==
    [len |-> 1, id |-> id, epoch |-> epoch, stream_index |-> stream_index]

\* tbb::concurrent_bounded_queue::try_push on a queue whose capacity was never
\* set (no set_capacity call in the constructor): the push always succeeds.
try_push(buffer, item) == Append(buffer, item)

\* get_default_context: the video context if there is one, else the audio one.
DefaultIsVideo == video_s_index_ # -1
default_time_base == IF DefaultIsVideo THEN video_tb ELSE audio_tb

\* Mutant: the frame counter is compared with eof_count_ whether or not an
\* end_frame window was configured.
is_eof_unguarded(errn) ==
    \/ frame_number > eof_count_
    \/ errn = AVERROR_EOF \/ errn = AVERROR_IO

is_eof(errn) ==
    IF end_frame_ # -1
    THEN frame_number > eof_count_
    ELSE errn = AVERROR_EOF \/ errn = AVERROR_IO

\* read_file on a loop restart: eof_count_ += end_frame_ - start_frame_
\* Mutant: the restart sets eof_count_ to twice its value.
eof_count_doubled == eof_count_ + eof_count_

eof_count_after_restart == eof_count_ + end_frame_ - start_frame_

\* Mutant: the worker waits only once both queues exceed one item more.
BackpressureOffByOne ==
    /\ is_running_
    /\ Len(audio_packet_buffer_) > PACKET_BUFFER_COUNT + 1
    /\ Len(video_packet_buffer_) > PACKET_BUFFER_COUNT + 1

\* Mutant: the running flag is tested negated, so a running worker never waits.
BackpressureNotRunning ==
    /\ ~is_running_
    /\ Len(audio_packet_buffer_) > PACKET_BUFFER_COUNT
    /\ Len(video_packet_buffer_) > PACKET_BUFFER_COUNT

\* The backpressure predicate of read_file's wait loop.
Backpressure ==
    /\ is_running_
    /\ Len(audio_packet_buffer_) > PACKET_BUFFER_COUNT
    /\ Len(video_packet_buffer_) > PACKET_BUFFER_COUNT

\* seek_frame: ts = frame * int64((AV_TIME_BASE * time_base.num) / time_base.den),
\* the product and the quotient in parentheses taken in int. The time bases of
\* the runs keep AV_TIME_BASE * num below 2^31, so the int product is exact.
seek_timestamp(frame, tb) == frame * ((AV_TIME_BASE * tb.num) \div tb.den)

\* What seek_frame(frame) passes to av_seek_frame with the default context's
\* time base tb.
seek_call(frame, tb) == [frame |-> frame, timestamp |-> seek_timestamp(frame, tb)]

\* Position of the demuxer after a successful seek to frame.
SeekPos(frame, file) == Min(frame, Len(file.packets)) + 1

\* cond_.notify_all(): a thread blocked in cond_.wait re-acquires the mutex and
\* evaluates the predicate again; nobody else is affected.
notify_all(w) == IF w = "waiting" THEN "check" ELSE w

\* A consumer thread outside any facade call.
Idle == [op |-> "idle", afterFault |-> FALSE]

\* time_base the container reports for the streams of the media files.
FileVideoTimeBase == [num |-> 1, den |-> 25000]
FileAudioTimeBase == [num |-> 1, den |-> 48000]

\* The media files of the runs: both streams report a numerator of 1.
Files(openable, opens) ==
    [ packets : Layouts, openable : openable, opens : opens,
      video_time_base : {FileVideoTimeBase}, audio_time_base : {FileAudioTimeBase} ]

\* Time bases containers report: numerator 1 with denominators of one to five
\* digits, and exact rationals such as 1001/30000.
VideoTimeBases ==
    { [num |-> 1, den |-> 3], [num |-> 1, den |-> 25], [num |-> 1, den |-> 50],
      [num |-> 1, den |-> 25000], [num |-> 1, den |-> 30000],
      [num |-> 1, den |-> 90000], [num |-> 1001, den |-> 30000],
      [num |-> 1001, den |-> 24000] }
AudioTimeBases ==
    { [num |-> 1, den |-> 8], [num |-> 1, den |-> 10], [num |-> 1, den |-> 44100],
      [num |-> 1, den |-> 48000], [num |-> 1, den |-> 90000], [num |-> 2, den |-> 3] }

\* ------------------------------------------------------------------- Init
\* The members and the threads before the constructor body runs.
InitState ==
    /\ constructed = "no"
    /\ ctor_error = "none"
    /\ loop_ = FALSE /\ start_frame_ = 0 /\ end_frame_ = -1 /\ eof_count_ = 0
    /\ video_s_index_ = -1 /\ audio_s_index_ = -1
    /\ video_tb = NoTimeBase /\ audio_tb = NoTimeBase
    /\ video_packet_buffer_ = << >> /\ audio_packet_buffer_ = << >>
    /\ exception_ = "null"
    /\ is_running_ = FALSE
    /\ execution_queue_ = << >>
    /\ wpc = "none"
    /\ dpc = "alive"
    /\ pos = 1
    /\ frame_number = 0
    /\ graph_ = [input_buffer |-> 0, seek_tags |-> 0]
    /\ reads = 0 /\ seeks = 0
    /\ popped = [video |-> << >>, audio |-> << >>]
    /\ calls = 0
    /\ lastCall = [op |-> "none", result |-> << >>, threw |-> FALSE,
                   afterFault |-> FALSE]
    /\ faulted = FALSE
    /\ lastRead = [ret |-> 0, stream_index |-> -1, outcome |-> "none"]
    /\ afterStop = [reads |-> 0, video |-> 0, audio |-> 0]
    /\ lastSeek = [frame |-> -1, timestamp |-> 0]

Init ==
    /\ args \in [ loop : BOOLEAN, start_frame : StartFrames, end_frame : EndFrames,
                  file : Files(Openable, {"ok"}) ]
               \cup
               [ loop : {FALSE}, start_frame : {0}, end_frame : {-1},
                  file : Files({{"video", "audio"}},
                               {"open_fails", "no_stream_info"}) ]
    /\ cpc = [c \in OneConsumer |-> Idle]
    /\ InitState

\* Two consumer threads on a looping file whose two streams both open: the
\* threads can be inside get_video_packet / get_audio_packet at the same time.
InitConcurrent ==
    /\ args \in [ loop : {TRUE}, start_frame : {0}, end_frame : {-1},
                  file : Files({{"video", "audio"}}, {"ok"}) ]
    /\ cpc = [c \in TwoConsumers |-> Idle]
    /\ InitState

\* The constructor on its own, over files with all these time bases and start
\* frames: which streams open, what fix_time_base makes of their time bases
\* and what the initial seek_frame passes to av_seek_frame.
InitConstruct ==
    /\ args \in [ loop : {FALSE}, start_frame : 0..MaxSeekFrame, end_frame : {-1},
                  file : [ packets : Layouts, openable : Openable, opens : {"ok"},
                           video_time_base : VideoTimeBases,
                           audio_time_base : AudioTimeBases ] ]
    /\ cpc = [c \in OneConsumer |-> Idle]
    /\ InitState

\* ------------------------------------------------------------ construction

\* seek_frame's effect on the two queues: one flush marker pushed to each.
SeekFlushVideo(buffer, epoch) == try_push(buffer, FlushMarker(epoch))
\* Mutant: no flush marker is pushed to the audio queue.
SeekFlushAudioMissing(buffer, epoch) == buffer

SeekFlushAudio(buffer, epoch) == try_push(buffer, FlushMarker(epoch))

\* Mutant: seek_frame pushes its flush markers before it tests av_seek_frame's
\* result, so a failed initial seek leaves a marker in each queue.
ConstructFailAfterFlush(error) ==
    /\ constructed' = "failed"
    /\ ctor_error' = error
    /\ video_packet_buffer_' =
          IF error = "invalid_operation"
          THEN try_push(video_packet_buffer_, FlushMarker(seeks + 1))
          ELSE video_packet_buffer_
    /\ audio_packet_buffer_' =
          IF error = "invalid_operation"
          THEN try_push(audio_packet_buffer_, FlushMarker(seeks + 1))
          ELSE audio_packet_buffer_
    /\ UNCHANGED << is_running_, execution_queue_, wpc, pos, seeks >>

\* The constructor throws: nothing after the throw statement runs.
ConstructFail(error) ==
    /\ constructed' = "failed"
    /\ ctor_error' = error
    /\ UNCHANGED << video_packet_buffer_, audio_packet_buffer_, is_running_,
                    execution_queue_, wpc, pos, seeks >>

\* The time bases of the two codec contexts after the constructor has opened
\* the streams: fix_time_base is called on the video context when the video
\* stream opened, and on the video context again (a no-op on a null context)
\* when the audio stream opened; the audio context keeps what the file reports.
opened_video_tb(file) ==
    IF "video" \notin file.openable THEN NoTimeBase
    ELSE IF "audio" \in file.openable
    THEN fix_time_base(fix_time_base(file.video_time_base))
    ELSE fix_time_base(file.video_time_base)

opened_audio_tb(file) ==
    IF "audio" \in file.openable THEN file.audio_time_base ELSE NoTimeBase

\* input::implementation::implementation
Construct ==
    /\ constructed = "no"
    /\ LET hasVideo == "video" \in args.file.openable
           hasAudio == "audio" \in args.file.openable
           sf == Max(args.start_frame, 0)
       IN
       /\ loop_' = args.loop
       /\ start_frame_' = sf
       /\ end_frame_' = args.end_frame
       /\ eof_count_' = args.end_frame - args.start_frame
       /\ IF args.end_frame > 0 /\ args.end_frame <= sf
          THEN /\ ConstructFail("invalid_argument")
               /\ UNCHANGED << video_s_index_, audio_s_index_, video_tb, audio_tb,
                               lastSeek >>
          ELSE IF args.file.opens # "ok"
          THEN /\ ConstructFail("file_read_error")
               /\ UNCHANGED << video_s_index_, audio_s_index_, video_tb, audio_tb,
                               lastSeek >>
          ELSE
            /\ video_s_index_' = IF hasVideo THEN VideoIndex ELSE -1
            /\ audio_s_index_' = IF hasAudio THEN AudioIndex ELSE -1
            /\ video_tb' = opened_video_tb(args.file)
            /\ audio_tb' = opened_audio_tb(args.file)
            /\ IF ~hasVideo /\ ~hasAudio
               THEN ConstructFail("file_read_error") /\ UNCHANGED lastSeek
               ELSE
                 /\ lastSeek' = IF sf = 0 THEN lastSeek
                                ELSE seek_call(sf, IF hasVideo THEN video_tb'
                                                   ELSE audio_tb')
                 /\ \E errn \in {0, -1} :
                    IF sf # 0 /\ errn < 0
                    THEN ConstructFail("invalid_operation")
                    ELSE
                      /\ constructed' = "yes"
                      /\ ctor_error' = "none"
                      /\ IF sf # 0
                         THEN /\ video_packet_buffer_' =
                                    SeekFlushVideo(video_packet_buffer_, seeks + 1)
                              /\ audio_packet_buffer_' =
                                    SeekFlushAudio(audio_packet_buffer_, seeks + 1)
                              /\ seeks' = seeks + 1
                              /\ pos' = SeekPos(sf, args.file)
                         ELSE UNCHANGED << video_packet_buffer_, audio_packet_buffer_,
                                           seeks, pos >>
                      \* executor_.start(); executor_.begin_invoke(read_file)
                      /\ is_running_' = TRUE
                      /\ wpc' = "run"
                      /\ execution_queue_' = Append(execution_queue_, "read_file")
    /\ UNCHANGED << args, exception_, cpc, dpc, frame_number, graph_, reads, popped,
                    calls, lastCall, faulted, lastRead, afterStop >>

\* ------------------------------------------------------------------ worker
\* executor::stop: clears the running flag and pushes an empty task that wakes
\* the executor thread if it is blocked on its task queue.
executor_stop(queue) == Append(queue, "wake")

\* What av_read_frame can return at the current position of the file.
av_read_frame ==
    IF pos <= Len(args.file.packets)
    THEN { [ret |-> 0, stream_index |-> args.file.packets[pos]],
           [ret |-> AVERROR_INVALIDDATA, stream_index |-> -1] }
    ELSE { [ret |-> AVERROR_EOF, stream_index |-> -1],
           [ret |-> AVERROR_INVALIDDATA, stream_index |-> -1] }

\* executor::run, head of the loop: while(is_running_)
WorkerRun ==
    /\ wpc = "run"
    /\ wpc' = IF is_running_ THEN "execute" ELSE "done"
    /\ UNCHANGED << cfgVars, constructed, ctor_error, eof_count_, video_packet_buffer_,
                    audio_packet_buffer_, is_running_, execution_queue_, cpc, dpc, pos,
                    frame_number, graph_, reads, seeks, popped, calls, lastCall, faulted,
                    lastRead, afterStop, lastSeek >>

\* executor::execute: blocking pop of the next task, then run it
WorkerExecute ==
    /\ wpc = "execute"
    /\ execution_queue_ # << >>
    /\ wpc' = IF Head(execution_queue_) = "read_file" THEN "read_file" ELSE "run"
    /\ execution_queue_' = Tail(execution_queue_)
    /\ UNCHANGED << cfgVars, constructed, ctor_error, eof_count_, video_packet_buffer_,
                    audio_packet_buffer_, is_running_, cpc, dpc, pos,
                    frame_number, graph_, reads, seeks, popped, calls, lastCall, faulted,
                    lastRead, afterStop, lastSeek >>

\* Mutant: the catch block logs and returns without calling stop().
CatchWithoutStop(r, what) ==
    /\ faulted' = TRUE
    /\ lastRead' = [ret |-> r.ret, stream_index |-> r.stream_index, outcome |-> what]
    /\ wpc' = "run"
    /\ UNCHANGED << eof_count_, video_packet_buffer_, audio_packet_buffer_, graph_,
                    seeks, is_running_, execution_queue_ >>

\* read_file's catch(...) block: stop(), log, return
Catch(r, what) ==
    /\ is_running_' = FALSE
    /\ execution_queue_' = executor_stop(execution_queue_)
    /\ faulted' = TRUE
    /\ lastRead' = [ret |-> r.ret, stream_index |-> r.stream_index, outcome |-> what]
    /\ wpc' = "run"
    /\ UNCHANGED << eof_count_, video_packet_buffer_, audio_packet_buffer_, graph_,
                    seeks >>

\* read_file, the try block: one av_read_frame and what is done with its result,
\* then graph_->update_value
ReadFile ==
    /\ wpc = "read_file"
    /\ \E r \in av_read_frame, seek_errn \in {0, -1} :
         /\ pos' = IF is_eof(r.ret) /\ loop_ /\ seek_errn >= 0
                   THEN SeekPos(start_frame_, args.file)
                   ELSE IF r.ret >= 0 THEN pos + 1 ELSE pos
         /\ reads' = IF r.ret >= 0 THEN reads + 1 ELSE reads
         /\ lastSeek' = IF is_eof(r.ret) /\ loop_
                        THEN seek_call(start_frame_, default_time_base)
                        ELSE lastSeek
         /\ IF is_eof(r.ret)
            THEN IF loop_
                 THEN IF seek_errn < 0
                      THEN Catch(r, "seek_failed")
                      ELSE /\ video_packet_buffer_' =
                                 SeekFlushVideo(video_packet_buffer_, seeks + 1)
                           /\ audio_packet_buffer_' =
                                 SeekFlushAudio(audio_packet_buffer_, seeks + 1)
                           /\ seeks' = seeks + 1
                           /\ eof_count_' = eof_count_after_restart
                           /\ graph_' = [input_buffer |-> Len(video_packet_buffer_'),
                                         seek_tags |-> graph_.seek_tags + 1]
                           /\ lastRead' = [ret |-> r.ret, stream_index |-> r.stream_index,
                                           outcome |-> "seek"]
                           /\ wpc' = "begin_invoke"
                           /\ UNCHANGED << is_running_, execution_queue_, faulted >>
                 ELSE /\ is_running_' = FALSE
                      /\ execution_queue_' = executor_stop(execution_queue_)
                      /\ graph_' = [graph_ EXCEPT
                                      !.input_buffer = Len(video_packet_buffer_)]
                      /\ lastRead' = [ret |-> r.ret, stream_index |-> r.stream_index,
                                      outcome |-> "stop"]
                      /\ wpc' = "begin_invoke"
                      /\ UNCHANGED << eof_count_, video_packet_buffer_,
                                      audio_packet_buffer_, seeks, faulted >>
            ELSE IF r.ret < 0
            THEN Catch(r, "fatal")
            ELSE /\ video_packet_buffer_' =
                       IF r.stream_index = video_s_index_
                       THEN try_push(video_packet_buffer_, Packet(reads + 1, seeks, r.stream_index))
                       ELSE video_packet_buffer_
                 /\ audio_packet_buffer_' =
                       IF r.stream_index # video_s_index_
                          /\ r.stream_index = audio_s_index_
                       THEN try_push(audio_packet_buffer_, Packet(reads + 1, seeks, r.stream_index))
                       ELSE audio_packet_buffer_
                 /\ graph_' = [graph_ EXCEPT
                                 !.input_buffer = Len(video_packet_buffer_')]
                 /\ lastRead' = [ret |-> r.ret, stream_index |-> r.stream_index,
                                 outcome |-> IF r.stream_index = video_s_index_
                                             THEN "video"
                                             ELSE IF r.stream_index = audio_s_index_
                                             THEN "audio" ELSE "discarded"]
                 /\ wpc' = "begin_invoke"
                 /\ UNCHANGED << eof_count_, is_running_, execution_queue_, seeks,
                                 faulted >>
    /\ Len(video_packet_buffer_') <= MaxQueueLen
    /\ Len(audio_packet_buffer_') <= MaxQueueLen
    /\ afterStop' =
         IF dpc \in {"notify", "join"}
         THEN [reads |-> Min(afterStop.reads + 1, 2),
               video |-> Min(afterStop.video + Len(video_packet_buffer_')
                                             - Len(video_packet_buffer_), 2),
               audio |-> Min(afterStop.audio + Len(audio_packet_buffer_')
                                             - Len(audio_packet_buffer_), 2)]
         ELSE afterStop
    /\ UNCHANGED << cfgVars, constructed, ctor_error, cpc, dpc, frame_number, popped,
                    calls, lastCall >>

\* Mutant: read_file calls itself instead of handing the next iteration to
\* the executor, so the running flag is never looked at between iterations.
WorkerBeginInvokeDirect ==
    /\ wpc = "begin_invoke"
    /\ wpc' = "read_file"
    /\ UNCHANGED << cfgVars, constructed, ctor_error, eof_count_, video_packet_buffer_,
                    audio_packet_buffer_, is_running_, execution_queue_, cpc, dpc, pos,
                    frame_number, graph_, reads, seeks, popped, calls, lastCall, faulted,
                    lastRead, afterStop, lastSeek >>

\* read_file after the try block: executor_.begin_invoke([this]{read_file();})
WorkerBeginInvoke ==
    /\ wpc = "begin_invoke"
    /\ execution_queue_' = Append(execution_queue_, "read_file")
    /\ wpc' = "check"
    /\ UNCHANGED << cfgVars, constructed, ctor_error, eof_count_, video_packet_buffer_,
                    audio_packet_buffer_, is_running_, cpc, dpc, pos,
                    frame_number, graph_, reads, seeks, popped, calls, lastCall, faulted,
                    lastRead, afterStop, lastSeek >>

\* read_file, the wait loop's predicate, evaluated with mutex_ held: the worker
\* goes on to cond_.wait, or leaves read_file
WorkerCheck ==
    /\ wpc = "check"
    /\ wpc' = IF Backpressure THEN "wait" ELSE "run"
    /\ UNCHANGED << cfgVars, constructed, ctor_error, eof_count_, video_packet_buffer_,
                    audio_packet_buffer_, is_running_, execution_queue_, cpc, dpc, pos,
                    frame_number, graph_, reads, seeks, popped, calls, lastCall, faulted,
                    lastRead, afterStop, lastSeek >>

\* cond_.wait(lock): the worker releases mutex_ and blocks. The notifiers do
\* not hold mutex_, so a notify_all can fall between the predicate and this.
WorkerWait ==
    /\ wpc = "wait"
    /\ wpc' = "waiting"
    /\ UNCHANGED << cfgVars, constructed, ctor_error, eof_count_, video_packet_buffer_,
                    audio_packet_buffer_, is_running_, execution_queue_, cpc, dpc, pos,
                    frame_number, graph_, reads, seeks, popped, calls, lastCall, faulted,
                    lastRead, afterStop, lastSeek >>

\* ------------------------------------------------------------------ facade
Usable == constructed = "yes" /\ dpc = "alive"

\* tbb::concurrent_bounded_queue::try_pop: the item at the head, if any.
try_pop(buffer) ==
    IF buffer = << >>
    THEN [ok |-> FALSE, packet |-> << >>, rest |-> buffer]
    ELSE [ok |-> TRUE, packet |-> << Head(buffer) >>, rest |-> Tail(buffer)]

\* Mutant: the newest item is taken instead of the oldest.
get_packet_newest(buffer) ==
    IF buffer = << >>
    THEN [result |-> << >>, rest |-> buffer]
    ELSE [result |-> << buffer[Len(buffer)] >>,
          rest |-> SubSeq(buffer, 1, Len(buffer) - 1)]

\* Mutant: the head of the queue is returned but left in the queue.
get_packet_peek(buffer) ==
    IF buffer = << >>
    THEN [result |-> << >>, rest |-> buffer]
    ELSE [result |-> << Head(buffer) >>, rest |-> buffer]

\* get_packet returns the popped buffer, or nullptr: the result is << >> for
\* nullptr and << item >> for a buffer.
get_packet(buffer) ==
    LET p == try_pop(buffer) IN
    [result |-> IF p.ok THEN p.packet ELSE << >>, rest |-> p.rest]

\* Facade calls the consumer threads make in one run.
CallBudget == IF args.end_frame # -1 THEN MaxWindowCalls ELSE MaxCalls

\* The facade call that pops the default stream's queue.
DefaultGetter == IF DefaultIsVideo THEN "get_video_packet" ELSE "get_audio_packet"

\* get_video_packet / get_audio_packet, first statement of get_packet:
\* cond_.notify_all()
GetPacketNotify(c) ==
    /\ Usable
    /\ cpc[c] = Idle
    /\ calls < CallBudget
    /\ \E op \in {"get_video_packet", "get_audio_packet"} :
         cpc' = [cpc EXCEPT ![c] = [op |-> op, afterFault |-> faulted]]
    /\ wpc' = notify_all(wpc)
    /\ calls' = calls + 1
    /\ UNCHANGED << cfgVars, constructed, ctor_error, eof_count_, video_packet_buffer_,
                    audio_packet_buffer_, is_running_, execution_queue_, dpc, pos,
                    frame_number, graph_, reads, seeks, popped, lastCall, faulted,
                    lastRead, afterStop, lastSeek >>

\* get_packet, the rest: try_pop and return
GetPacketPop(c) ==
    /\ cpc[c].op \in {"get_video_packet", "get_audio_packet"}
    /\ IF cpc[c].op = "get_video_packet"
       THEN LET g == get_packet(video_packet_buffer_) IN
            /\ video_packet_buffer_' = g.rest
            /\ popped' = [popped EXCEPT !.video = @ \o g.result]
            /\ lastCall' = [op |-> cpc[c].op, result |-> g.result, threw |-> FALSE,
                            afterFault |-> cpc[c].afterFault]
            /\ UNCHANGED audio_packet_buffer_
       ELSE LET g == get_packet(audio_packet_buffer_) IN
            /\ audio_packet_buffer_' = g.rest
            /\ popped' = [popped EXCEPT !.audio = @ \o g.result]
            /\ lastCall' = [op |-> cpc[c].op, result |-> g.result, threw |-> FALSE,
                            afterFault |-> cpc[c].afterFault]
            /\ UNCHANGED video_packet_buffer_
    /\ cpc' = [cpc EXCEPT ![c] =
                 IF cpc[c].op = DefaultGetter /\ lastCall'.result # << >>
                    /\ lastCall'.result[1].len > 0
                 THEN [op |-> "decode", afterFault |-> FALSE] ELSE Idle]
    /\ UNCHANGED << cfgVars, constructed, ctor_error, eof_count_, is_running_,
                    execution_queue_, wpc, dpc, pos, frame_number, graph_, reads, seeks,
                    calls, faulted, lastRead, afterStop, lastSeek >>

has_packet == video_packet_buffer_ # << >> \/ audio_packet_buffer_ # << >>

\* fps: den / num of the default context's time_base, kept as the pair.
fps == << default_time_base.den, default_time_base.num >>

\* input::has_packet, input::is_running, input::fps
Query(c) ==
    /\ Usable
    /\ cpc[c] = Idle
    /\ calls < CallBudget
    /\ \E op \in {"has_packet", "is_running", "fps"} :
         lastCall' = [op |-> op,
                      result |-> CASE op = "has_packet" -> << has_packet >>
                                   [] op = "is_running" -> << is_running_ >>
                                   [] op = "fps" -> fps,
                      threw |-> FALSE,
                      afterFault |-> faulted]
    /\ calls' = calls + 1
    /\ UNCHANGED << cfgVars, constructed, ctor_error, eof_count_, video_packet_buffer_,
                    audio_packet_buffer_, is_running_, execution_queue_, wpc, cpc, dpc,
                    pos, frame_number, graph_, reads, seeks, popped, faulted,
                    lastRead, afterStop, lastSeek >>

\* The consumer thread hands a packet it popped from the default stream's
\* queue to the downstream decoder, which decodes it before the thread makes
\* its next call: the codec context's frame_number advances by one.
Decode(c) ==
    /\ cpc[c].op = "decode"
    /\ frame_number' = frame_number + 1
    /\ cpc' = [cpc EXCEPT ![c] = Idle]
    /\ UNCHANGED << cfgVars, constructed, ctor_error, eof_count_, video_packet_buffer_,
                    audio_packet_buffer_, is_running_, execution_queue_, wpc, dpc,
                    pos, graph_, reads, seeks, popped, calls, lastCall, faulted,
                    lastRead, afterStop, lastSeek >>

\* -------------------------------------------------------------- destruction
\* ~implementation: executor_.clear()
DtorClear ==
    /\ Usable
    /\ \A c \in Consumers : cpc[c] = Idle
    /\ execution_queue_' = << >>
    /\ dpc' = "stop"
    /\ UNCHANGED << cfgVars, constructed, ctor_error, eof_count_, video_packet_buffer_,
                    audio_packet_buffer_, is_running_, wpc, cpc, pos,
                    frame_number, graph_, reads, seeks, popped, calls, lastCall, faulted,
                    lastRead, afterStop, lastSeek >>

\* Mutant: the destructor does not stop the executor.
DtorStopMissing ==
    /\ dpc = "stop"
    /\ dpc' = "notify"
    /\ UNCHANGED << cfgVars, constructed, ctor_error, eof_count_, video_packet_buffer_,
                    audio_packet_buffer_, is_running_, execution_queue_, wpc, cpc, pos,
                    frame_number, graph_, reads, seeks, popped, calls, lastCall, faulted,
                    lastRead, afterStop, lastSeek >>

\* ~implementation: executor_.stop()
DtorStop ==
    /\ dpc = "stop"
    /\ is_running_' = FALSE
    /\ execution_queue_' = executor_stop(execution_queue_)
    /\ dpc' = "notify"
    /\ UNCHANGED << cfgVars, constructed, ctor_error, eof_count_, video_packet_buffer_,
                    audio_packet_buffer_, wpc, cpc, pos,
                    frame_number, graph_, reads, seeks, popped, calls, lastCall, faulted,
                    lastRead, afterStop, lastSeek >>

\* ~implementation: cond_.notify_all()
DtorNotify ==
    /\ dpc = "notify"
    /\ wpc' = notify_all(wpc)
    /\ dpc' = "join"
    /\ UNCHANGED << cfgVars, constructed, ctor_error, eof_count_, video_packet_buffer_,
                    audio_packet_buffer_, is_running_, execution_queue_, cpc, pos,
                    frame_number, graph_, reads, seeks, popped, calls, lastCall, faulted,
                    lastRead, afterStop, lastSeek >>

\* ~executor (executor_ is the last member, so the first destroyed): join
DtorJoin ==
    /\ dpc = "join"
    /\ wpc = "done"
    /\ dpc' = "destroyed"
    /\ UNCHANGED << cfgVars, constructed, ctor_error, eof_count_, video_packet_buffer_,
                    audio_packet_buffer_, is_running_, execution_queue_, wpc, cpc, pos,
                    frame_number, graph_, reads, seeks, popped, calls, lastCall, faulted,
                    lastRead, afterStop, lastSeek >>

\* ----------------------------------------------------------- specification
\* Construction, the worker, the packet getters and destruction.
Next ==
    \/ Construct
    \/ WorkerRun
    \/ WorkerExecute
    \/ ReadFile
    \/ WorkerBeginInvoke
    \/ WorkerCheck
    \/ WorkerWait
    \/ \E c \in Consumers : GetPacketNotify(c)
    \/ \E c \in Consumers : GetPacketPop(c)
    \/ \E c \in Consumers : Decode(c)
    \/ DtorClear
    \/ DtorStop
    \/ DtorNotify
    \/ DtorJoin

Spec == Init /\ [][Next]_vars

\* The same with the read-only facade calls (has_packet, is_running, fps),
\* which change nothing the worker, the queues or the destructor read.
NextFacade ==
    \/ Next
    \/ \E c \in Consumers : Query(c)

SpecFacade == Init /\ [][NextFacade]_vars

\* Construction, the worker, the packet getters and destruction with two
\* consumer threads.
SpecConcurrent == InitConcurrent /\ [][Next]_vars

\* The constructor alone.
SpecConstruct == InitConstruct /\ [][Construct]_vars

\* ------------------------------------------------------------------ claims
VideoLen == Len(video_packet_buffer_)
AudioLen == Len(audio_packet_buffer_)
InGetPacket(c) == cpc[c].op \in {"get_video_packet", "get_audio_packet"}

\* C1: neither the video nor the audio packet queue ever holds more than
\* PACKET_BUFFER_COUNT (25) items, whatever the worker pushes and whether or
\* not consumers pop.
C1_QueuesWithinCapacity ==
    VideoLen <= PACKET_BUFFER_COUNT /\ AudioLen <= PACKET_BUFFER_COUNT

\* C2: once the destructor has called executor_.stop() and cond_.notify_all()
\* and is joining the worker, the worker is not blocked in cond_.wait: no
\* facade call and no further notification can wake it there, so the join
\* would never complete.
C2_StopTerminatesWorker == dpc = "join" => wpc # "waiting"

\* C3: when the worker is blocked in the backpressure wait while the input is
\* running and no get_video_packet/get_audio_packet call is in progress, both
\* queues still exceed PACKET_BUFFER_COUNT: a call whose pop brought a queue
\* back to 25 or fewer items has woken the worker, which needs no further call.
C3_PopWakesWorker ==
    (wpc = "waiting" /\ dpc = "alive" /\ is_running_
        /\ \A c \in Consumers : ~InGetPacket(c))
    => (VideoLen > PACKET_BUFFER_COUNT /\ AudioLen > PACKET_BUFFER_COUNT)

\* C4: the worker never issues av_read_frame in a state where both the video
\* and the audio queue hold more than PACKET_BUFFER_COUNT (25) items.
C4_NoReadWhileBothOver ==
    wpc = "read_file"
    => ~(VideoLen > PACKET_BUFFER_COUNT /\ AudioLen > PACKET_BUFFER_COUNT)

\* C4 witness: the worker is about to read although the video queue exceeds
\* 25 items, because a pop has brought the audio queue, which had been pushed
\* more than 25 items, back to 25.
C4_Witness ==
    /\ wpc = "read_file"
    /\ VideoLen > PACKET_BUFFER_COUNT
    /\ AudioLen = PACKET_BUFFER_COUNT
    /\ AudioLen + Len(popped.audio) > PACKET_BUFFER_COUNT

\* C5: after the destructor has set the stop flag (executor_.stop()), nothing
\* is pushed to the video or the audio queue any more, not even by a worker
\* iteration that was in flight.
C5_NoPushAfterStop == afterStop.video = 0 /\ afterStop.audio = 0

\* C5, amended: after the destructor has set the stop flag at most one more
\* read_file iteration runs (the one the worker had committed to before the
\* flag was cleared), and it adds at most one item to each queue.
C5_OneIterationAfterStop ==
    afterStop.reads <= 1 /\ afterStop.video <= 1 /\ afterStop.audio <= 1

\* C5 witness: the worker has terminated after an iteration that ran after
\* the stop request and pushed to the video queue.
C5_Witness ==
    /\ dpc \in {"join", "destroyed"}
    /\ wpc = "done"
    /\ afterStop.reads = 1
    /\ afterStop.video = 1

\* Real packets (not flush markers) among the items of a sequence.
RealPackets(items) == SelectSeq(items, LAMBDA it : it.len > 0)

\* The items are in the order in which av_read_frame returned them.
InReadOrder(items) ==
    \A i, j \in 1..Len(items) : i < j => items[i].id < items[j].id

\* C6: the real packets popped through get_video_packet (get_audio_packet)
\* are packets av_read_frame returned for the video (audio) stream, delivered
\* in the order in which it returned them.
C6_FifoPerStream ==
    /\ InReadOrder(RealPackets(popped.video))
    /\ InReadOrder(RealPackets(popped.audio))
    /\ \A i \in 1..Len(popped.video) :
         popped.video[i].len > 0 =>
            /\ popped.video[i].stream_index = video_s_index_
            /\ popped.video[i].id <= reads
    /\ \A i \in 1..Len(popped.audio) :
         popped.audio[i].len > 0 =>
            /\ popped.audio[i].stream_index = audio_s_index_
            /\ popped.audio[i].id <= reads

\* C6 witness: two real packets have been popped from the video queue.
C6_Witness == Len(RealPackets(popped.video)) >= 2

\* Every packet read after a seek comes after that seek's flush marker.
FlushFirst(items) ==
    \A i \in 1..Len(items) :
        (items[i].len > 0 /\ items[i].epoch >= 1) =>
            \E j \in 1..(i - 1) :
                items[j].len = 0 /\ items[j].epoch = items[i].epoch

\* C7: in what each queue has delivered and still holds, in delivery order,
\* every packet av_read_frame returned after a successful seek (the initial
\* one or a loop restart) is preceded by the zero-length flush marker of
\* that seek.
C7_FlushBeforePostSeekPackets ==
    /\ FlushFirst(popped.video \o video_packet_buffer_)
    /\ FlushFirst(popped.audio \o audio_packet_buffer_)

\* C7 witness: the audio queue has delivered a flush marker and, right after
\* it, a packet read after that seek.
C7_Witness ==
    \E i \in 1..(Len(popped.audio) - 1) :
        /\ popped.audio[i].len = 0
        /\ popped.audio[i + 1].len > 0
        /\ popped.audio[i + 1].epoch = popped.audio[i].epoch

\* C8: when only a video stream was opened, every get_audio_packet call
\* returns absent (nullptr): no buffer at all.
C8_AudioAbsentWhenVideoOnly ==
    (constructed = "yes" /\ video_s_index_ # -1 /\ audio_s_index_ = -1
        /\ lastCall.op = "get_audio_packet")
    => lastCall.result = << >>

\* C9: with looping enabled, a read at which the demuxer signals end of
\* stream makes the worker seek back to start_frame and go on; unless that
\* seek itself fails, the read is not treated as a fatal error and does not
\* stop the worker.
C9_LoopEofKeepsRunning ==
    (loop_ /\ lastRead.outcome # "none"
        /\ lastRead.ret \in {AVERROR_EOF, AVERROR_IO})
    => lastRead.outcome \in {"seek", "seek_failed"}

\* C10: a facade call made after a fatal read or seek failure in the worker
\* reports that fault to its caller.
C10_FaultReportedToNextCall ==
    (lastCall.op # "none" /\ lastCall.afterFault) => lastCall.threw

\* What a queue has delivered so far followed by what it still holds.
DeliveredVideo == popped.video \o video_packet_buffer_
DeliveredAudio == popped.audio \o audio_packet_buffer_

\* C11: a fatal read or seek failure leaves both queues as they were and
\* clears the running flag; from then on the flag stays false, the worker
\* issues no further av_read_frame, and the packets that were queued at the
\* fault are neither lost nor reordered: each queue only shrinks at its head,
\* by what get_video_packet / get_audio_packet return.
C11_FaultStopsAndKeepsQueues ==
    [][ /\ (~faulted /\ faulted') =>
              /\ video_packet_buffer_' = video_packet_buffer_
              /\ audio_packet_buffer_' = audio_packet_buffer_
        /\ faulted' => (~is_running_' /\ wpc' \in {"run", "done"})
        /\ faulted =>
              /\ reads' = reads
              /\ DeliveredVideo' = DeliveredVideo
              /\ DeliveredAudio' = DeliveredAudio ]_vars

\* C11 witness: after a fault that found packets in the video queue, a
\* get_video_packet call that started after the fault has returned the oldest
\* of them and the worker has terminated.
C11_Witness ==
    /\ faulted /\ wpc = "done" /\ ~is_running_
    /\ lastCall.op = "get_video_packet" /\ lastCall.afterFault
    /\ lastCall.result # << >>
    /\ lastCall.result[1].len > 0
    /\ video_packet_buffer_ # << >>

\* C12: with loop and a window (end_frame > start_frame >= 0) eof_count_
\* starts at end_frame - start_frame and every loop restart adds exactly that
\* amount: after the k-th restart it is (k + 1) * (end_frame - start_frame).
\* A restart never lowers it and nothing else changes it. Every restart adds
\* one "seek" tag to the diagnostics graph, which counts them.
C12_EofCountPerRestart ==
    /\ (constructed = "yes" /\ loop_ /\ end_frame_ > start_frame_
            /\ args.start_frame >= 0)
       => eof_count_ = (graph_.seek_tags + 1) * (end_frame_ - start_frame_)
    /\ (constructed = "yes" /\ graph_.seek_tags = 0)
       => eof_count_ = args.end_frame - args.start_frame

\* C12 witness: the second restart of a window of one frame has happened.
C12_Witness ==
    /\ constructed = "yes" /\ loop_ /\ end_frame_ > start_frame_
    /\ graph_.seek_tags = 2
    /\ eof_count_ = 3 * (end_frame_ - start_frame_)

\* C13: construction with loop = true, end_frame > 0 and end_frame <=
\* start_frame fails with the configuration error (invalid_argument). Whenever
\* construction has failed (invalid window, open failure, no stream info,
\* neither stream opened, initial seek failed) the worker was never started,
\* no av_read_frame was issued and nothing was pushed to either queue.
C13_FailedConstructionStartsNothing ==
    /\ (constructed # "no" /\ args.loop /\ args.end_frame > 0
            /\ args.end_frame <= args.start_frame)
       => (constructed = "failed" /\ ctor_error = "invalid_argument")
    /\ (constructed # "no"
            /\ (args.file.opens # "ok" \/ args.file.openable = {}))
       => (constructed = "failed"
           /\ ctor_error \in {"invalid_argument", "file_read_error"})
    /\ constructed = "failed"
       => /\ ctor_error \in {"invalid_argument", "file_read_error",
                              "invalid_operation"}
          /\ wpc = "none" /\ ~is_running_ /\ execution_queue_ = << >>
          /\ reads = 0 /\ lastRead.outcome = "none"
          /\ DeliveredVideo = << >> /\ DeliveredAudio = << >>

\* C13 witness: a looping input whose window ends at its start frame has
\* been refused.
C13_Witness ==
    /\ constructed = "failed" /\ ctor_error = "invalid_argument"
    /\ args.loop /\ args.end_frame > 0 /\ args.end_frame <= args.start_frame

\* C14: is_running() changes at most once, from true to false: once it is
\* false on a constructed input it is never true again and no further
\* read_file iteration executes.
C14_StopIsFinal ==
    [][ (constructed = "yes" /\ ~is_running_)
        => /\ ~is_running_'
           /\ ~(wpc = "read_file" /\ wpc' # "read_file") ]_vars

\* C14, amended: once is_running() is false on a constructed input it is
\* never true again; no read_file iteration executes after the worker stopped
\* itself, and after the destructor's stop at most one executes: the one the
\* worker had committed to before the flag was cleared.
C14_StopIsFinalButOneIteration ==
    [][ (constructed = "yes" /\ ~is_running_)
        => /\ ~is_running_'
           /\ (wpc = "read_file" /\ wpc' # "read_file")
              => (dpc \in {"notify", "join"} /\ afterStop.reads = 0) ]_vars

\* C14 witness: the worker stopped itself at the end of a file that does not
\* loop and has left the executor loop; the input is still alive.
C14_Witness ==
    /\ constructed = "yes" /\ dpc = "alive"
    /\ ~is_running_ /\ wpc = "done"
    /\ lastRead.outcome = "stop"

\* The first sequence is an initial part of the second, and what the second
\* adds to it are items that occur nowhere before in it.
GrowsByFreshItems(a, b) ==
    /\ Len(a) <= Len(b)
    /\ SubSeq(b, 1, Len(a)) = a
    /\ \A i \in (Len(a) + 1)..Len(b) : \A j \in 1..(i - 1) : b[i] # b[j]

\* C15: with consumer threads calling get_video_packet / get_audio_packet
\* concurrently, every item pushed to a queue is returned by at most one pop
\* and is never lost: it stays in the queue until exactly one pop returns it.
\* So in every step what a queue has delivered followed by what it holds
\* stays as it was or grows at its end, by items the worker pushes, and the
\* same item never appears in it a second time.
C15_EachItemPoppedOnce ==
    [][ /\ GrowsByFreshItems(DeliveredVideo, DeliveredVideo')
        /\ GrowsByFreshItems(DeliveredAudio, DeliveredAudio') ]_vars

\* C15 witness: two consumer threads were inside get_video_packet at the same
\* time and each has come back with a packet; neither has decoded it yet.
C15_Witness ==
    /\ Cardinality(Consumers) = 2
    /\ \A c \in Consumers : cpc[c].op = "decode"
    /\ Len(RealPackets(popped.video)) = 2

\* The last read returned a packet (ret >= 0) that read_file dropped because
\* is_eof answered true: the worker sought back or stopped instead.
LastReadDropped ==
    /\ lastRead.ret >= 0
    /\ lastRead.outcome \in {"seek", "seek_failed", "stop"}

\* No item of the sequence is the packet with this id.
PacketAbsent(items, id) ==
    \A i \in 1..Len(items) : items[i].id # id

\* A step in which av_read_frame returned a packet (ret >= 0).
SuccessfulRead == reads' = reads + 1

\* The step pushed the packet it read to the queue of its stream and nothing
\* else; a packet of another stream index went to neither queue.
ReadPacketRouted ==
    LET packet == Packet(reads', seeks, lastRead'.stream_index) IN
    /\ lastRead'.stream_index = video_s_index_
       => /\ video_packet_buffer_' = Append(video_packet_buffer_, packet)
          /\ audio_packet_buffer_' = audio_packet_buffer_
    /\ (lastRead'.stream_index # video_s_index_
          /\ lastRead'.stream_index = audio_s_index_)
       => /\ audio_packet_buffer_' = Append(audio_packet_buffer_, packet)
          /\ video_packet_buffer_' = video_packet_buffer_
    /\ lastRead'.stream_index \notin {video_s_index_, audio_s_index_}
       => /\ video_packet_buffer_' = video_packet_buffer_
          /\ audio_packet_buffer_' = audio_packet_buffer_

\* C16: every packet av_read_frame returns successfully (ret >= 0) for the
\* selected video or audio stream index is pushed to that stream's queue in
\* the same iteration, for every window and loop configuration; packets of
\* other stream indices are never enqueued.
C16_EverySuccessfulReadPushed ==
    [][ SuccessfulRead => ReadPacketRouted ]_vars

\* C16, amended: a successfully read packet is dropped only when an
\* end_frame window is configured and the frame counter has passed
\* eof_count_ (the worker then seeks back or stops); every other successfully
\* read packet of the selected video or audio stream index is pushed to that
\* stream's queue in the same iteration, and packets of other stream indices
\* are never enqueued.
C16_ReadPushedUnlessWindowPassed ==
    [][ SuccessfulRead
        => IF end_frame_ # -1 /\ frame_number > eof_count_
           THEN /\ lastRead'.outcome \in {"seek", "seek_failed", "stop"}
                /\ PacketAbsent(video_packet_buffer_', reads')
                /\ PacketAbsent(audio_packet_buffer_', reads')
           ELSE ReadPacketRouted ]_vars

\* C16 witness: packets of the window were pushed to the audio queue, and
\* then a successfully read audio packet was dropped because the frame counter
\* had passed eof_count_.
C16_Witness ==
    /\ LastReadDropped
    /\ audio_s_index_ # -1
    /\ lastRead.stream_index = audio_s_index_
    /\ RealPackets(DeliveredAudio) # << >>

\* C17: every buffer-fill value the worker publishes to the diagnostics graph
\* (video queue size divided by PACKET_BUFFER_COUNT) lies in [0, 1]: the
\* published size is between 0 and PACKET_BUFFER_COUNT.
C17_BufferFillWithinUnit ==
    graph_.input_buffer >= 0 /\ graph_.input_buffer <= PACKET_BUFFER_COUNT

\* (f * x) \div d for non-negative f, x and positive d, written so that no
\* intermediate value leaves the 32-bit range: with x = q * d + r the product
\* f * x is f * q * d + f * r, so its quotient by d is f * q + (f * r) \div d.
MulDiv(f, x, d) == f * (x \div d) + (f * (x % d)) \div d

\* C18: the timestamp seek_frame passes to av_seek_frame equals
\* frame * num * AV_TIME_BASE / den of the default stream's time base, the
\* multiplications done before the one truncating division, also for time
\* bases where AV_TIME_BASE * num is not a multiple of den.
C18_SeekTimestampExact ==
    lastSeek.frame # -1
    => lastSeek.timestamp =
          MulDiv(lastSeek.frame, default_time_base.num * AV_TIME_BASE,
                 default_time_base.den)

\* Number of decimal digits of a positive integer.
Digits(n) == Log10Floor(n) + 1

\* The correction as the claim states it: a numerator of 1 becomes
\* 10^(digits(den) - 1), any other numerator stays.
ClaimedTimeBase(tb) ==
    IF tb.num = 1 THEN [tb EXCEPT !.num = Pow10(Digits(tb.den) - 1)] ELSE tb

\* C19: after construction every opened stream, video and audio alike, whose
\* reported time-base numerator was 1 has the numerator 10^(digits(den) - 1);
\* a stream whose numerator was not 1 keeps its time base; and applying
\* fix_time_base once more changes nothing.
C19_NumeratorCorrected ==
    constructed = "yes"
    => /\ "video" \in args.file.openable
          => /\ video_tb = ClaimedTimeBase(args.file.video_time_base)
             /\ fix_time_base(video_tb) = video_tb
       /\ "audio" \in args.file.openable
          => /\ audio_tb = ClaimedTimeBase(args.file.audio_time_base)
             /\ fix_time_base(audio_tb) = audio_tb

\* C20: in every reachable state at least one of the two queues holds at
\* most PACKET_BUFFER_COUNT + 1 (26) items: a read iteration starts only when
\* not both queues exceed 25 and adds at most one item to each queue. The
\* larger of the two queues is not bounded by the protocol.
C20_SmallerQueueBounded ==
    Min(VideoLen, AudioLen) <= PACKET_BUFFER_COUNT + 1

\* C20 witness: the smaller queue holds 26 items and the other one more
\* than that, after a loop restart pushed a flush marker to both while the
\* audio queue was at 25.
C20_Witness ==
    /\ Min(VideoLen, AudioLen) = PACKET_BUFFER_COUNT + 1
    /\ Max(VideoLen, AudioLen) > PACKET_BUFFER_COUNT + 1

====
